---- MODULE Spec2Model ----
\* State-machine model of the RAGfolio ingestion pipeline:
\*   - ChunkingService.chunk_text        (services/chunking.py)
\*   - EmbeddingService                  (services/embedding.py)
\*   - QuotaService                      (services/quota.py)
\*   - DocumentService                   (services/documents.py)
\*   - process_document_task             (tasks/document_processing.py)
\* Texts are sequences of one-character strings; "n" stands for the newline
\* character, so the default separator "\n\n" is <<"n", "n">>.
EXTENDS Integers, Sequences, FiniteSets, TLC

\* ------------------------------------------------------------------ bounds
MaxTextLen == 9
MaxChunkSize == 2
MaxOverlap == 2

NumOrgs == 2
MaxDocs == 1
MaxTasks == 2
MaxCounter == 2
MaxUsage == 1
MaxReqs == 2
MaxStoreDocs == 2
MaxAdmitDocs == 2
MaxEmbedding == 3
MaxTexts == 3
MaxBatch == 2
MaxChats == 2
MaxMessages == 18

\* ------------------------------------------------------- program constants
chars_per_token == 4
DefaultChunkSize == 1000
DefaultOverlap == 200
DefaultSeparator == <<"n", "n">>
embedding_batch_size == 100
default_max_documents == 100
default_max_storage_bytes == 1073741824
default_max_chat_sessions == 50
default_limit == 5
default_min_score == 70
default_max_chunks == 5
history_limit == 15
recent_history == 10

\* --------------------------------------------------------------- helpers
Min2(a, b) == IF a < b THEN a ELSE b
Max2(a, b) == IF a > b THEN a ELSE b
SetMin(S) == CHOOSE x \in S : \A y \in S : x <= y
SetMax(S) == CHOOSE x \in S : \A y \in S : x >= y

Alphabet == {"a", "n"}
Whitespace == {" ", "n"}
Separators == {<<"n">>, <<"n", "n">>}

\* all texts over Alphabet of length 0..k
TextsUpTo(k) == UNION {[1..m -> Alphabet] : m \in 0..k}

\* str.strip(): drop leading and trailing whitespace
Strip(s) ==
  LET keep == {i \in 1..Len(s) : s[i] \notin Whitespace}
  IN IF keep = {} THEN <<>> ELSE SubSeq(s, SetMin(keep), SetMax(keep))

\* str.rfind(sep): 0-based index of the last occurrence of sep in s, or -1
RFind(s, sep) ==
  LET hits == {i \in 0..(Len(s) - Len(sep)) : SubSeq(s, i + 1, i + Len(sep)) = sep}
  IN IF hits = {} THEN -1 ELSE SetMax(hits)

\* the window start after one iteration (chunking.py lines 86-91)
AdvanceStart(end, char_overlap) ==
  LET s1 == end - char_overlap
      s2 == IF s1 >= end THEN end ELSE s1
  IN IF s2 < 0 THEN end ELSE s2

\* the loop body with chunk_index += 1 moved out of the if: a dropped window
\* consumes an index
ChunkIter_counts_dropped(text, chunk_size, overlap, separator, st) ==
  LET char_chunk_size == chunk_size * chars_per_token
      char_overlap == overlap * chars_per_token
      text_length == Len(text)
      start == st.start
      end0 == Min2(start + char_chunk_size, text_length)
      ct0 == SubSeq(text, start + 1, end0)
      last_separator == RFind(ct0, separator)
      trim == end0 < text_length /\ last_separator > char_chunk_size \div 2
      ct1 == IF trim THEN SubSeq(ct0, 1, last_separator + Len(separator)) ELSE ct0
      end == IF trim THEN start + Len(ct1) ELSE end0
      stripped == Strip(ct1)
      emit == stripped # <<>>
      newstart == AdvanceStart(end, char_overlap)
  IN [start |-> newstart,
      chunk_index |-> st.chunk_index + 1,
      chunks |-> IF emit
                 THEN Append(st.chunks, [text |-> stripped,
                                         chunk_index |-> st.chunk_index,
                                         char_start |-> start,
                                         char_end |-> end])
                 ELSE st.chunks,
      brk |-> newstart >= text_length]

\* One iteration of the while loop of chunk_text (chunking.py lines 62-93).
\* st is [start, chunk_index, chunks]; the result adds brk (line 92).
ChunkIter(text, chunk_size, overlap, separator, st) ==
  LET char_chunk_size == chunk_size * chars_per_token
      char_overlap == overlap * chars_per_token
      text_length == Len(text)
      start == st.start
      end0 == Min2(start + char_chunk_size, text_length)
      ct0 == SubSeq(text, start + 1, end0)
      last_separator == RFind(ct0, separator)
      trim == end0 < text_length /\ last_separator > char_chunk_size \div 2
      ct1 == IF trim THEN SubSeq(ct0, 1, last_separator + Len(separator)) ELSE ct0
      end == IF trim THEN start + Len(ct1) ELSE end0
      stripped == Strip(ct1)
      emit == stripped # <<>>
      newstart == AdvanceStart(end, char_overlap)
  IN [start |-> newstart,
      chunk_index |-> IF emit THEN st.chunk_index + 1 ELSE st.chunk_index,
      chunks |-> IF emit
                 THEN Append(st.chunks, [text |-> stripped,
                                         chunk_index |-> st.chunk_index,
                                         char_start |-> start,
                                         char_end |-> end])
                 ELSE st.chunks,
      brk |-> newstart >= text_length]

ChunkStart == [start |-> 0, chunk_index |-> 0, chunks |-> <<>>]

\* chunk_text run to completion.  The loop body is a function of start alone
\* as far as control flow goes, so a start value seen twice means the loop
\* never exits: diverges is TRUE and chunks is what was emitted so far.
RECURSIVE ChunkRun(_, _, _, _, _, _)
ChunkRun(text, chunk_size, overlap, separator, st, seen) ==
  IF ~(st.start < Len(text)) THEN [diverges |-> FALSE, chunks |-> st.chunks]
  ELSE IF st.start \in seen THEN [diverges |-> TRUE, chunks |-> st.chunks]
  ELSE LET nx == ChunkIter(text, chunk_size, overlap, separator, st)
       IN IF nx.brk THEN [diverges |-> FALSE, chunks |-> nx.chunks]
          ELSE ChunkRun(text, chunk_size, overlap, separator,
                        [start |-> nx.start, chunk_index |-> nx.chunk_index,
                         chunks |-> nx.chunks],
                        seen \cup {st.start})

chunk_text(text, chunk_size, overlap, separator) ==
  ChunkRun(text, chunk_size, overlap, separator, ChunkStart, {})

\* ------------------------------------------------------------ embeddings
\* the vector the provider computes for a text
Vec(text) == <<"vec", text>>

\* What one provider call (client.embeddings.create) can do with a batch:
\* answer with one item per input, answer with the last item missing, or fail.
ProviderOutcomes == {"ok", "short", "error"}

ProviderData(batch, outcome) ==
  LET full == [i \in 1..Len(batch) |-> Vec(batch[i])]
  IN IF outcome = "ok" THEN full ELSE SubSeq(full, 1, Len(full) - 1)

\* number of iterations of range(0, len(texts), batch_size)
NumBatches(n, batch_size) == (n + batch_size - 1) \div batch_size

\* the loop of generate_embeddings_batch from offset i on; resp[k] is the
\* outcome of the k-th provider call.  A failing call raises ValueError.
RECURSIVE EmbedLoop(_, _, _, _, _)
EmbedLoop(texts, batch_size, resp, i, all_embeddings) ==
  IF i >= Len(texts) THEN [raised |-> FALSE, embeddings |-> all_embeddings]
  ELSE LET batch == SubSeq(texts, i + 1, Min2(i + batch_size, Len(texts)))
           k == (i \div batch_size) + 1
       IN IF resp[k] = "error" THEN [raised |-> TRUE, embeddings |-> <<>>]
          ELSE EmbedLoop(texts, batch_size, resp, i + batch_size,
                         all_embeddings \o ProviderData(batch, resp[k]))

generate_embeddings_batch(texts, batch_size, resp) ==
  EmbedLoop(texts, batch_size, resp, 0, <<>>)

\* ------------------------------------------------------------ documents
Orgs == 1..NumOrgs
TaskIds == 1..MaxTasks

\* What an uploaded file can hold.  "corrupt" is a file whose extraction
\* raises; the others are plain text.
Contents == {"blank", "short", "long", "corrupt"}

FileText(content) ==
  CASE content = "blank" -> <<" ", "n", " ">>
    [] content = "short" -> <<" ", "a", "a", "n">>
    [] content = "long" -> [i \in 1..(DefaultOverlap * chars_per_token) |-> "a"]
    [] OTHER -> <<>>

\* len(file_content)
FileSize(content) == IF content = "corrupt" THEN 7 ELSE Len(FileText(content))

None == "None"
Errors == {"File not found", "Failed to extract text",
           "No text chunks extracted from document",
           "Failed to generate embeddings"}

NoDoc == [exists |-> FALSE, org |-> 0, status |-> "UPLOADED",
          error_message |-> None, chunk_count |-> 0, processed_at |-> FALSE,
          deleted_at |-> FALSE, content |-> "blank", file |-> FALSE]

\* Document(...) as built by create_document
NewDocument(org, content) ==
  [exists |-> TRUE, org |-> org, status |-> "UPLOADED",
   error_message |-> None, chunk_count |-> 0, processed_at |-> FALSE,
   deleted_at |-> FALSE, content |-> content, file |-> TRUE]

\* ---------------------------------------------------------------- quota
\* records: the rows of organization_quotas that carry the tenant's id
NoQuota == [exists |-> FALSE, records |-> 0, max_documents |-> 0, max_storage_bytes |-> 0,
            max_chat_sessions |-> 0, current_documents |-> 0,
            current_storage_bytes |-> 0, current_chunks |-> 0,
            current_chat_sessions |-> 0]

\* OrganizationQuota(organization_id=...) with the column defaults
DefaultQuota ==
  [exists |-> TRUE, records |-> 1, max_documents |-> default_max_documents,
   max_storage_bytes |-> default_max_storage_bytes,
   max_chat_sessions |-> default_max_chat_sessions, current_documents |-> 0,
   current_storage_bytes |-> 0, current_chunks |-> 0,
   current_chat_sessions |-> 0]

\* the table after get_or_create_quota(org)
get_or_create_quota(q, org) ==
  IF q[org].exists THEN q ELSE [q EXCEPT ![org] = DefaultQuota]

\* the clamp of update_*_count
Clamp(current, delta) == Max2(0, current + delta)

update_document_count(q, org, delta) ==
  LET q1 == get_or_create_quota(q, org)
  IN [q1 EXCEPT ![org].current_documents = Clamp(@, delta)]

update_storage_count(q, org, delta_bytes) ==
  LET q1 == get_or_create_quota(q, org)
  IN [q1 EXCEPT ![org].current_storage_bytes = Clamp(@, delta_bytes)]

update_chunk_count(q, org, delta) ==
  LET q1 == get_or_create_quota(q, org)
  IN [q1 EXCEPT ![org].current_chunks = Clamp(@, delta)]

update_chat_session_count(q, org, delta) ==
  LET q1 == get_or_create_quota(q, org)
  IN [q1 EXCEPT ![org].current_chat_sessions = Clamp(@, delta)]

\* the (can_add, error) pairs of the check_* methods, on the table after
\* get_or_create_quota
check_document_quota(q, org, additional_documents) ==
  IF q[org].current_documents + additional_documents > q[org].max_documents
  THEN <<FALSE, "Document limit reached">> ELSE <<TRUE, None>>

\* check_storage_quota refusing a request that exactly fills the limit
check_storage_quota_inclusive(q, org, additional_bytes) ==
  IF q[org].current_storage_bytes + additional_bytes >= q[org].max_storage_bytes
  THEN <<FALSE, "Storage limit reached">> ELSE <<TRUE, None>>

check_storage_quota(q, org, additional_bytes) ==
  IF q[org].current_storage_bytes + additional_bytes > q[org].max_storage_bytes
  THEN <<FALSE, "Storage limit reached">> ELSE <<TRUE, None>>

check_chat_session_quota(q, org, additional_sessions) ==
  IF q[org].current_chat_sessions + additional_sessions > q[org].max_chat_sessions
  THEN <<FALSE, "Chat session limit reached">> ELSE <<TRUE, None>>

\* ------------------------------------------------------------------ state
VARIABLES
  ck_text,      \* chunk_text: the input text
  ck_cfg,       \* chunk_text: [chunk_size, overlap, separator] of the service
  ck_st,        \* chunk_text: [start, chunk_index, chunks] loop variables
  ck_pc,        \* chunk_text: "idle" | "loop" | "done"
  ck_iters,     \* chunk_text: iterations executed (bounds diverging runs)
  docs,         \* documents table: DocIds -> row
  rows,         \* document_chunks table: set of rows
  quota,        \* organization_quotas table: Orgs -> row
  tasks,        \* process_document_task invocations: TaskIds -> frame
  settings_key, \* settings.openai_api_key is non-empty
  ret,          \* what the last request handler returned
  reqs,         \* admissions in flight: ReqIds -> [pc, ...]
  sessions,     \* chat_sessions table: Orgs -> number of sessions not deleted
  found,        \* what the last retrieval call returned
  em,           \* generate_embeddings_batch: the call in progress
  chat          \* chat_messages per session and the last send_message call

ckvars == <<ck_text, ck_cfg, ck_st, ck_pc, ck_iters>>
sysvars == <<docs, rows, quota, tasks, settings_key, ret, reqs, sessions, found, em, chat>>
vars == <<ck_text, ck_cfg, ck_st, ck_pc, ck_iters,
          docs, rows, quota, tasks, settings_key, ret, reqs, sessions, found, em, chat>>

\* the ids of the documents table
DocIds == DOMAIN docs
ReqIds == 1..MaxReqs

\* seen: the counter value the request's quota object holds; applied: the
\* update_*_count calls of the request that committed
NoReq == [pc |-> "idle", op |-> "none", org |-> 0, content |-> "blank",
          key |-> FALSE, doc |-> 0, seen |-> 0, applied |-> 0]

\* found: the call's outcome (raised, result, embedded: the embedding
\* provider was called, response, sources, llm_called) and its arguments
NoFound == [op |-> "none", raised |-> FALSE, result |-> <<>>,
            embedded |-> FALSE, response |-> "none", sources |-> <<>>,
            llm_called |-> FALSE, org |-> 0, limit |-> 0, min_score |-> 0,
            probe |-> "none", cred |-> FALSE, q |-> 0]

\* em: the arguments texts and batch_size, the loop variables i and
\* all_embeddings, and calls: the batches sent to the provider so far
\* and result: the list the call returned
NoEmbed == [pc |-> "idle", texts |-> <<>>, batch_size |-> 1, i |-> 0,
            all_embeddings |-> <<>>, calls |-> <<>>, result |-> <<>>]

\* chat: messages[s] is the number of chat_messages rows of session s (the
\* k-th oldest has content k); the rest describes the last send_message
\* call: its session and query, the history it built and the prompt it sent
ChatIds == 1..MaxChats

NoChat == [messages |-> [s \in ChatIds |-> 0], op |-> "none", session |-> 0,
           query |-> 0, history |-> <<>>, prompt |-> <<>>]

\* no admission in flight, no chat session, no retrieval call made, no
\* embedding call in progress, no message sent
RestIdle ==
  /\ reqs = [r \in ReqIds |-> NoReq]
  /\ sessions = [o \in Orgs |-> 0]
  /\ found = NoFound
  /\ em = NoEmbed
  /\ chat = NoChat

\* iterations allowed: a terminating run never repeats a start value, so it
\* has at most Len(text) iterations
MaxIters == MaxTextLen + 2

ChunkIdle ==
  /\ ck_text = <<>>
  /\ ck_cfg = [chunk_size |-> DefaultChunkSize, overlap |-> DefaultOverlap,
               separator |-> DefaultSeparator]
  /\ ck_st = ChunkStart
  /\ ck_pc = "idle"
  /\ ck_iters = 0

NoTask == [pc |-> "none", doc |-> 0, org |-> 0, api_key |-> FALSE,
           snap |-> [status |-> "UPLOADED", chunk_count |-> 0,
                     error_message |-> None],
           chunks |-> <<>>, embeddings |-> <<>>]

\* ret is [op, val]: the request handler or task that returned last and
\* what it returned ("raised": the exception left the task)
NoRet == [op |-> "none", val |-> None]

\* empty tables, no task dispatched
SysIdle ==
  /\ docs = [d \in 1..MaxDocs |-> NoDoc]
  /\ rows = {}
  /\ quota = [o \in Orgs |-> NoQuota]
  /\ tasks = [t \in TaskIds |-> NoTask]
  /\ settings_key = FALSE
  /\ ret = NoRet
  /\ RestIdle

\* a ChunkingService with some configuration is handed some text
InitChunk ==
  /\ ck_text \in TextsUpTo(MaxTextLen)
  /\ ck_cfg \in [chunk_size : 1..MaxChunkSize, overlap : 0..MaxOverlap,
                 separator : Separators]
  /\ ck_st = ChunkStart
  /\ ck_pc = "loop"
  /\ ck_iters = 0
  /\ SysIdle

\* while start < text_length: one iteration of the body
ChunkLoopStep ==
  /\ ck_pc = "loop"
  /\ ck_st.start < Len(ck_text)
  /\ ck_iters < MaxIters
  /\ LET nx == ChunkIter(ck_text, ck_cfg.chunk_size, ck_cfg.overlap,
                         ck_cfg.separator, ck_st)
     IN /\ ck_st' = [start |-> nx.start, chunk_index |-> nx.chunk_index,
                     chunks |-> nx.chunks]
        /\ ck_pc' = IF nx.brk THEN "done" ELSE "loop"
  /\ ck_iters' = ck_iters + 1
  /\ UNCHANGED <<ck_text, ck_cfg>>
  /\ UNCHANGED sysvars

\* the while condition is false on entry: return chunks
ChunkLoopExit ==
  /\ ck_pc = "loop"
  /\ ~(ck_st.start < Len(ck_text))
  /\ ck_pc' = "done"
  /\ UNCHANGED <<ck_text, ck_cfg, ck_st, ck_iters>>
  /\ UNCHANGED sysvars

NextChunk == ChunkLoopStep \/ ChunkLoopExit

SpecChunk == InitChunk /\ [][NextChunk]_vars

\* ------------------------------------------------------------ ingestion
FreeDocs == {d \in DocIds : ~docs[d].exists}
FreeTasks == {t \in TaskIds : tasks[t].pc = "none"}
RowsOf(d) == {r \in rows : r.document_id = d}

\* DocumentService.get_document: the row, if it is the tenant's and not
\* soft-deleted
Visible(d, org) == docs[d].exists /\ docs[d].org = org /\ ~docs[d].deleted_at

\* process_document_task.delay(document_id, organization_id, api_key)
Dispatch(tk, d, org, key) ==
  [tk EXCEPT ![SetMin({t \in TaskIds : tk[t].pc = "none"})] =
     [NoTask EXCEPT !.pc = "queued", !.doc = d, !.org = org, !.api_key = key]]

Init ==
  /\ docs = [d \in 1..MaxDocs |-> NoDoc]
  /\ rows = {}
  /\ quota = [o \in Orgs |-> NoQuota]
  /\ tasks = [t \in TaskIds |-> NoTask]
  /\ settings_key \in BOOLEAN
  /\ ret = NoRet
  /\ RestIdle
  /\ ChunkIdle

\* DocumentService.create_document.  type_ok: file_type names a
\* DocumentTypeEnum member; key: the tenant has an active LLM key.
create_document(org, content, type_ok, key) ==
  LET q0 == get_or_create_quota(quota, org)
      c1 == check_document_quota(q0, org, 1)
      c2 == check_storage_quota(q0, org, FileSize(content))
      error == IF ~c1[1] THEN c1[2]
               ELSE IF ~c2[1] THEN c2[2]
               ELSE IF ~type_ok THEN "Unsupported file type" ELSE None
  IN IF error # None
     THEN /\ quota' = q0
          /\ ret' = [op |-> "create", val |-> "ValueError"]
          /\ UNCHANGED <<docs, rows, tasks>>
     ELSE /\ FreeDocs # {}
          /\ FreeTasks # {}
          /\ LET d == SetMin(FreeDocs)
             IN /\ docs' = [docs EXCEPT ![d] = NewDocument(org, content)]
                /\ tasks' = Dispatch(tasks, d, org, key)
                /\ ret' = [op |-> "create", val |-> "document"]
          /\ quota' = update_storage_count(update_document_count(q0, org, 1),
                                           org, FileSize(content))
          /\ UNCHANGED rows

\* DocumentService.delete_document
delete_document(d, org) ==
  IF ~Visible(d, org)
  THEN /\ ret' = [op |-> "delete", val |-> "False"]
       /\ UNCHANGED <<docs, rows, quota, tasks>>
  ELSE /\ docs' = [docs EXCEPT ![d].deleted_at = TRUE, ![d].file = FALSE]
       /\ quota' = update_chunk_count(
                     update_storage_count(
                       update_document_count(quota, org, -1),
                       org, -FileSize(docs[d].content)),
                     org, -Cardinality(RowsOf(d)))
       /\ ret' = [op |-> "delete", val |-> "True"]
       /\ UNCHANGED <<rows, tasks>>

\* reprocess_document without the delete of the document's chunk rows
reprocess_document_keeps_chunks(d, org, key) ==
  IF ~Visible(d, org)
  THEN /\ ret' = [op |-> "reprocess", val |-> None]
       /\ UNCHANGED <<docs, rows, quota, tasks>>
  ELSE /\ FreeTasks # {}
       /\ quota[org].current_chunks < MaxCounter
       /\ docs' = [docs EXCEPT ![d].status = "UPLOADED", ![d].chunk_count = 0,
                               ![d].error_message = None]
       /\ tasks' = Dispatch(tasks, d, org, key)
       /\ ret' = [op |-> "reprocess", val |-> "document"]
       /\ UNCHANGED <<rows, quota>>

\* DocumentService.reprocess_document.  current_chunks only ever grows under
\* repeated reprocessing, so the model stops admitting requests at MaxCounter.
reprocess_document(d, org, key) ==
  IF ~Visible(d, org)
  THEN /\ ret' = [op |-> "reprocess", val |-> None]
       /\ UNCHANGED <<docs, rows, quota, tasks>>
  ELSE /\ FreeTasks # {}
       /\ quota[org].current_chunks < MaxCounter
       /\ docs' = [docs EXCEPT ![d].status = "UPLOADED", ![d].chunk_count = 0,
                               ![d].error_message = None]
       /\ rows' = rows \ RowsOf(d)
       /\ tasks' = Dispatch(tasks, d, org, key)
       /\ ret' = [op |-> "reprocess", val |-> "document"]
       /\ UNCHANGED quota

\* --------------------------------------------------- process_document_task
\* the ORM writes a column only when the assigned value differs from the
\* value loaded into the session
Assign(db, loaded, new) == IF new = loaded THEN db ELSE new

\* the task returns val (or raises): its frame is gone and the worker is free
Return(t, val) ==
  /\ tasks' = [tasks EXCEPT ![t] = NoTask]
  /\ ret' = [op |-> "task", val |-> val]

\* except Exception (lines 140-151): mark the document failed, return
HandleFailure(t, loaded, msg) ==
  LET d == tasks[t].doc
  IN /\ docs' = [docs EXCEPT
                   ![d].status = Assign(@, loaded.status, "FAILED"),
                   ![d].error_message = Assign(@, loaded.error_message, msg)]
     /\ Return(t, "failure")

\* lines 43-52: load the document, set PROCESSING, commit
TaskStart(t) ==
  /\ tasks[t].pc = "queued"
  /\ LET d == tasks[t].doc
     IN IF ~docs[d].exists
        THEN /\ Return(t, "not found")
             /\ UNCHANGED docs
        ELSE /\ docs' = [docs EXCEPT ![d].status = "PROCESSING"]
             /\ tasks' = [tasks EXCEPT ![t].pc = "init"]
             /\ UNCHANGED ret
  /\ UNCHANGED <<rows, quota>>

\* lines 55-58: EmbeddingService(api_key) raises ValueError without a key;
\* the call stands outside the inner try, so the exception leaves the task
TaskInit(t) ==
  /\ tasks[t].pc = "init"
  /\ IF tasks[t].api_key \/ settings_key
     THEN /\ tasks' = [tasks EXCEPT ![t].pc = "extract", ![t].api_key = TRUE]
          /\ UNCHANGED ret
     ELSE Return(t, "raised")
  /\ UNCHANGED <<docs, rows, quota>>

\* the columns the task assigns later, as loaded at line 62
Loaded(d) == [status |-> docs[d].status, chunk_count |-> docs[d].chunk_count,
              error_message |-> docs[d].error_message]

\* lines 62-72: reload the expired document, extract the text
TaskExtract(t) ==
  /\ tasks[t].pc = "extract"
  /\ LET d == tasks[t].doc
     IN IF ~docs[d].file
        THEN HandleFailure(t, Loaded(d), "File not found")
        ELSE IF docs[d].content = "corrupt"
        THEN HandleFailure(t, Loaded(d), "Failed to extract text")
        ELSE /\ tasks' = [tasks EXCEPT ![t].pc = "chunk",
                                       ![t].snap = Loaded(d)]
             /\ UNCHANGED <<docs, ret>>
  /\ UNCHANGED <<rows, quota>>

\* ChunkingService().chunk_text(text_content) for each file content
DefaultChunking ==
  [c \in Contents |-> chunk_text(FileText(c), DefaultChunkSize, DefaultOverlap,
                                 DefaultSeparator)]

\* lines 77-87: ChunkingService().chunk_text; the step exists only when the
\* loop of chunk_text exits
TaskChunk(t) ==
  /\ tasks[t].pc = "chunk"
  /\ LET r == DefaultChunking[docs[tasks[t].doc].content]
     IN /\ ~r.diverges
        /\ IF r.chunks = <<>>
           THEN HandleFailure(t, tasks[t].snap,
                              "No text chunks extracted from document")
           ELSE /\ tasks' = [tasks EXCEPT ![t].pc = "embed",
                                          ![t].chunks = r.chunks]
                /\ UNCHANGED <<docs, ret>>
  /\ UNCHANGED <<rows, quota>>

\* lines 91-95: generate_embeddings_batch over the chunk texts
TaskEmbed(t) ==
  /\ tasks[t].pc = "embed"
  /\ LET chunk_texts == [i \in 1..Len(tasks[t].chunks) |-> tasks[t].chunks[i].text]
     IN \E resp \in [1..NumBatches(Len(chunk_texts), embedding_batch_size)
                       -> ProviderOutcomes] :
          LET e == generate_embeddings_batch(chunk_texts, embedding_batch_size, resp)
          IN IF e.raised
             THEN HandleFailure(t, tasks[t].snap, "Failed to generate embeddings")
             ELSE /\ tasks' = [tasks EXCEPT ![t].pc = "persist",
                                            ![t].embeddings = e.embeddings]
                  /\ UNCHANGED <<docs, ret>>
  /\ UNCHANGED <<rows, quota>>

\* lines 103-116: one DocumentChunk per pair of zip(chunks, embeddings)
ChunkObjects(d, chunks, embeddings) ==
  {[document_id |-> d, chunk_index |-> chunks[i].chunk_index,
    text_content |-> chunks[i].text, embedding |-> embeddings[i],
    char_start |-> chunks[i].char_start, char_end |-> chunks[i].char_end]
     : i \in 1..Min2(Len(chunks), Len(embeddings))}

\* uq_document_chunk_index
UniqueViolation(new) ==
  \E r \in new : \E x \in rows :
     x.document_id = r.document_id /\ x.chunk_index = r.chunk_index

\* lines 119-125: set READY and commit rows and document together.  The
\* flush fails on a violation of uq_document_chunk_index or when the database
\* rejects it (db_ok = FALSE: a vector that is not of dimension 1536, a lost
\* connection).  The session's transaction is then rolled back and inactive,
\* so db.commit() of the handler (line 145) raises in its turn and the
\* exception leaves the task with nothing written.
TaskPersist(t, db_ok) ==
  /\ tasks[t].pc = "persist"
  /\ LET d == tasks[t].doc
         chunk_objects == ChunkObjects(d, tasks[t].chunks, tasks[t].embeddings)
         loaded == tasks[t].snap
     IN IF UniqueViolation(chunk_objects) \/ ~db_ok
        THEN /\ Return(t, "raised")
             /\ UNCHANGED <<docs, rows>>
        ELSE /\ rows' = rows \cup chunk_objects
             /\ docs' = [docs EXCEPT
                  ![d].status = Assign(@, loaded.status, "READY"),
                  ![d].chunk_count = Assign(@, loaded.chunk_count,
                                            Cardinality(chunk_objects)),
                  ![d].processed_at = TRUE,
                  ![d].error_message = Assign(@, loaded.error_message, None)]
             /\ tasks' = [tasks EXCEPT ![t].pc = "quota"]
             /\ UNCHANGED ret
  /\ UNCHANGED quota

\* lines 128-138: update_chunk_count, return the success descriptor
TaskQuota(t) ==
  /\ tasks[t].pc = "quota"
  /\ LET n == Min2(Len(tasks[t].chunks), Len(tasks[t].embeddings))
     IN /\ quota' = update_chunk_count(quota, tasks[t].org, n)
        /\ Return(t, "success")
  /\ UNCHANGED <<docs, rows>>

TaskStep(t) ==
  \/ TaskStart(t)
  \/ TaskInit(t)
  \/ TaskExtract(t)
  \/ TaskChunk(t)
  \/ TaskEmbed(t)
  \/ \E db_ok \in BOOLEAN : TaskPersist(t, db_ok)
  \/ TaskQuota(t)

Upload ==
  /\ \E org \in Orgs, content \in Contents, type_ok \in BOOLEAN, key \in BOOLEAN :
       create_document(org, content, type_ok, key)
  /\ UNCHANGED <<settings_key, ckvars, reqs, sessions, found, em, chat>>

Delete ==
  /\ \E d \in DocIds, org \in Orgs : delete_document(d, org)
  /\ UNCHANGED <<settings_key, ckvars, reqs, sessions, found, em, chat>>

Reprocess ==
  /\ \E d \in DocIds, org \in Orgs, key \in BOOLEAN : reprocess_document(d, org, key)
  /\ UNCHANGED <<settings_key, ckvars, reqs, sessions, found, em, chat>>

WorkerStep(t) ==
  /\ TaskStep(t)
  /\ UNCHANGED <<settings_key, ckvars, reqs, sessions, found, em, chat>>

Worker == \E t \in TaskIds : WorkerStep(t)

Next == Upload \/ Delete \/ Reprocess \/ Worker

Spec == Init /\ [][Next]_vars

\* a worker that holds a task keeps executing it
SpecFair == Init /\ [][Next]_vars /\ \A t \in TaskIds : WF_vars(WorkerStep(t))

\* ------------------------------------------------------- quota service
\* The quota service on its own: quota rows with limits and usage drawn from
\* small sets, and calls of its methods with arbitrary arguments.
\* rows the table can hold: usage is never negative and the CHECK constraints
\* of organization_quotas hold
\* a table created without the CHECK constraints
CheckConstraints_dropped(r) == TRUE

CheckConstraints(r) ==
  /\ r.current_documents <= r.max_documents
  /\ r.current_storage_bytes <= r.max_storage_bytes
  /\ r.current_chat_sessions <= r.max_chat_sessions

QuotaRows ==
  {r \in [exists : {TRUE},
          records : {1},
          max_documents : {MaxUsage},
          max_storage_bytes : {1000, 1500},
          max_chat_sessions : {MaxUsage},
          current_documents : 0..MaxUsage,
          current_storage_bytes : {0, 900},
          current_chunks : {0},
          current_chat_sessions : 0..MaxUsage] : CheckConstraints(r)}

CountDeltas == {-2, -1, 1, 2}
ByteDeltas == {-1000, 500}
MaxBytes == 1500

InitQuota ==
  /\ \E o \in Orgs : \E r \in QuotaRows :
       quota = [x \in Orgs |-> IF x = o THEN r ELSE NoQuota]
  /\ docs = [d \in 1..MaxDocs |-> NoDoc]
  /\ rows = {}
  /\ tasks = [t \in TaskIds |-> NoTask]
  /\ settings_key = FALSE
  /\ ret = NoRet
  /\ RestIdle
  /\ ChunkIdle

\* (can_add, error) as the caller sees it
Pair(c) == IF c[1] THEN (IF c[2] = None THEN "(True, None)" ELSE "(True, reason)")
           ELSE (IF c[2] = None THEN "(False, None)" ELSE "(False, reason)")

CheckDocuments(org, n) ==
  /\ quota' = get_or_create_quota(quota, org)
  /\ ret' = [op |-> "check_document_quota",
             val |-> Pair(check_document_quota(quota', org, n))]

CheckStorage(org, n) ==
  /\ quota' = get_or_create_quota(quota, org)
  /\ ret' = [op |-> "check_storage_quota",
             val |-> Pair(check_storage_quota(quota', org, n))]

CheckSessions(org, n) ==
  /\ quota' = get_or_create_quota(quota, org)
  /\ ret' = [op |-> "check_chat_session_quota",
             val |-> Pair(check_chat_session_quota(quota', org, n))]

\* whether the model follows the call: counters stay within the model's range
InRange(r) ==
  /\ r.current_documents <= MaxUsage
  /\ r.current_chunks <= MaxUsage
  /\ r.current_chat_sessions <= MaxUsage
  /\ r.current_storage_bytes <= MaxBytes

\* db.commit() of an update_*_count call that leaves the table as q1: a row
\* outside the CHECK constraints is rejected, the call raises IntegrityError
\* and the table is as get_or_create_quota left it
CommitUpdate(org, q1) ==
  IF CheckConstraints(q1[org])
  THEN /\ InRange(q1[org])
       /\ quota' = q1
       /\ ret' = [op |-> "update", val |-> "quota"]
  ELSE /\ quota' = get_or_create_quota(quota, org)
       /\ ret' = [op |-> "update", val |-> "IntegrityError"]

UpdateDocuments(org, delta) == CommitUpdate(org, update_document_count(quota, org, delta))
UpdateStorage(org, delta) == CommitUpdate(org, update_storage_count(quota, org, delta))
UpdateChunks(org, delta) == CommitUpdate(org, update_chunk_count(quota, org, delta))
UpdateSessions(org, delta) == CommitUpdate(org, update_chat_session_count(quota, org, delta))

quotaframe == <<docs, rows, tasks, settings_key, ckvars, reqs, sessions, found, em, chat>>

QCheck ==
  /\ \E org \in Orgs :
       \/ \E n \in {1, 2} : CheckDocuments(org, n)
       \/ \E n \in {0, 500} : CheckStorage(org, n)
       \/ \E n \in {1, 2} : CheckSessions(org, n)
  /\ UNCHANGED quotaframe

QUpdate ==
  /\ \E org \in Orgs :
       \/ \E delta \in CountDeltas : UpdateDocuments(org, delta)
       \/ \E delta \in ByteDeltas : UpdateStorage(org, delta)
       \/ \E delta \in CountDeltas : UpdateChunks(org, delta)
       \/ \E delta \in CountDeltas : UpdateSessions(org, delta)
  /\ UNCHANGED quotaframe

NextQuota == QCheck \/ QUpdate

SpecQuota == InitQuota /\ [][NextQuota]_vars

\* ------------------------------------------------- admission, one at a time
\* ChatService.create_session
create_session(org) ==
  LET q0 == get_or_create_quota(quota, org)
      c == check_chat_session_quota(q0, org, 1)
  IN IF ~c[1]
     THEN /\ quota' = q0
          /\ ret' = [op |-> "create_session", val |-> "ValueError"]
          /\ UNCHANGED sessions
     ELSE /\ sessions[org] < MaxCounter
          /\ sessions' = [sessions EXCEPT ![org] = @ + 1]
          /\ quota' = update_chat_session_count(q0, org, 1)
          /\ ret' = [op |-> "create_session", val |-> "session"]

\* ChatService.delete_session of one of the tenant's sessions, if it has any
delete_session(org) ==
  IF sessions[org] = 0
  THEN /\ ret' = [op |-> "delete_session", val |-> "False"]
       /\ UNCHANGED <<quota, sessions>>
  ELSE /\ sessions' = [sessions EXCEPT ![org] = @ - 1]
       /\ quota' = update_chat_session_count(quota, org, -1)
       /\ ret' = [op |-> "delete_session", val |-> "True"]

\* sum of file_size over a set of document ids
RECURSIVE SumSizes(_)
SumSizes(D) ==
  IF D = {} THEN 0
  ELSE LET d == CHOOSE x \in D : TRUE
       IN FileSize(docs[d].content) + SumSizes(D \ {d})

\* the row recalculate_usage assigns: usage counted from the tables
Recounted(q, org) ==
  LET live == {d \in DocIds : docs[d].exists /\ docs[d].org = org
                               /\ ~docs[d].deleted_at}
  IN [q EXCEPT
        ![org].current_documents =
            Cardinality({d \in live : docs[d].status = "READY"}),
        ![org].current_storage_bytes = SumSizes(live),
        ![org].current_chunks =
            Cardinality({r \in rows : r.document_id \in live}),
        ![org].current_chat_sessions = sessions[org]]

\* QuotaService.recalculate_usage: the commit is subject to the CHECK
\* constraints of the table
recalculate_usage(org) ==
  LET q0 == get_or_create_quota(quota, org)
      q1 == Recounted(q0, org)
  IN IF CheckConstraints(q1[org])
     THEN /\ quota' = q1
          /\ ret' = [op |-> "recalculate", val |-> "quota"]
     ELSE /\ quota' = q0
          /\ ret' = [op |-> "recalculate", val |-> "IntegrityError"]

CreateSession ==
  /\ \E org \in Orgs : create_session(org)
  /\ UNCHANGED <<docs, rows, tasks, settings_key, ckvars, reqs, found, em, chat>>

DeleteSession ==
  /\ \E org \in Orgs : delete_session(org)
  /\ UNCHANGED <<docs, rows, tasks, settings_key, ckvars, reqs, found, em, chat>>

Recalculate ==
  /\ \E org \in Orgs : recalculate_usage(org)
  /\ UNCHANGED <<docs, rows, tasks, settings_key, ckvars, reqs, sessions, found, em, chat>>

\* a tenant with small limits and nothing stored yet; the other tenants get
\* their row, with the default limits, on first use
SmallQuota ==
  [DefaultQuota EXCEPT !.max_documents = MaxUsage, !.max_storage_bytes = 8,
                       !.max_chat_sessions = MaxUsage]

InitSerial ==
  /\ docs = [d \in 1..MaxAdmitDocs |-> NoDoc]
  /\ rows = {}
  /\ quota = [o \in Orgs |-> IF o = 1 THEN SmallQuota ELSE NoQuota]
  /\ tasks = [t \in TaskIds |-> NoTask]
  /\ settings_key = FALSE
  /\ ret = NoRet
  /\ RestIdle
  /\ ChunkIdle

\* uploads of files of 4 and 7 bytes by tenants with an active key
AdmitContents == {"short", "corrupt"}

SerialUpload ==
  /\ \E org \in Orgs, content \in AdmitContents, type_ok \in BOOLEAN :
       create_document(org, content, type_ok, TRUE)
  /\ UNCHANGED <<settings_key, ckvars, reqs, sessions, found, em, chat>>

\* every operation runs to completion before the next one starts
NextSerial ==
  SerialUpload \/ Delete \/ Worker \/ CreateSession \/ DeleteSession \/ Recalculate

SpecSerial == InitSerial /\ [][NextSerial]_vars

\* ------------------------------------------------- operations in sequence
\* Requests and task executions that do not overlap: a request is served
\* only while no task is between its first and its last step, and a task is
\* executed only while no other task is.  Tasks may wait in the queue.
Running(t) == tasks[t].pc \notin {"none", "queued"}

Quiet == \A t \in TaskIds : ~Running(t)

InitOrdered ==
  /\ docs = [d \in 1..MaxDocs |-> NoDoc]
  /\ rows = {}
  /\ quota = [o \in Orgs |-> NoQuota]
  /\ tasks = [t \in TaskIds |-> NoTask]
  /\ settings_key = FALSE
  /\ ret = NoRet
  /\ RestIdle
  /\ ChunkIdle

OrderedUpload == Quiet /\ SerialUpload

OrderedDelete == Quiet /\ Delete

OrderedReprocess ==
  /\ Quiet
  /\ \E d \in DocIds, org \in Orgs : reprocess_document(d, org, TRUE)
  /\ UNCHANGED <<settings_key, ckvars, reqs, sessions, found, em, chat>>

OrderedCreateSession == Quiet /\ CreateSession

OrderedDeleteSession == Quiet /\ DeleteSession

OrderedRecalculate == Quiet /\ Recalculate

OrderedTask ==
  \E t \in TaskIds :
    /\ \A u \in TaskIds \ {t} : ~Running(u)
    /\ WorkerStep(t)

NextOrdered ==
  \/ OrderedUpload
  \/ OrderedDelete
  \/ OrderedReprocess
  \/ OrderedCreateSession
  \/ OrderedDeleteSession
  \/ OrderedRecalculate
  \/ OrderedTask

SpecOrdered == InitOrdered /\ [][NextOrdered]_vars

\* A sequence of uploads, task executions, deletes and session requests that
\* do not overlap, closed by one call of recalculate_usage: nothing is served
\* after the recalculation.
Counting == ret.op # "recalculate"

NextRecount ==
  \/ Counting /\ OrderedUpload
  \/ Counting /\ OrderedDelete
  \/ Counting /\ OrderedCreateSession
  \/ Counting /\ OrderedDeleteSession
  \/ Counting /\ OrderedTask
  \/ Counting /\ OrderedRecalculate

SpecRecount == InitOrdered /\ [][NextRecount]_vars

\* ------------------------------------------------------- worker crashes
\* The worker process dies while it executes a task: the session's open
\* transaction is lost, nothing is written and nothing is returned.  The
\* task was acknowledged when the worker received it (acks_late is not
\* set), so the broker does not deliver it again.
Crash(t) ==
  /\ Running(t)
  /\ tasks' = [tasks EXCEPT ![t] = NoTask]
  /\ ret' = [op |-> "task", val |-> "crashed"]
  /\ UNCHANGED <<docs, rows, quota>>

WorkerCrash ==
  /\ \E t \in TaskIds : Crash(t)
  /\ UNCHANGED <<settings_key, ckvars, reqs, sessions, found, em, chat>>

NextCrash == Upload \/ Delete \/ Reprocess \/ Worker \/ WorkerCrash

SpecCrash == Init /\ [][NextCrash]_vars

\* ------------------------------------------------ admission, interleaved
\* Each request runs in its own database session and makes one call; the
\* steps of two requests interleave at the database round trips.
UploadContents == {"short", "corrupt", "long"}

\* the request ends: pc is "rejected" (ValueError), "failed" (IntegrityError)
\* or "done"
Ends(r, pc, op, val) ==
  /\ reqs' = [reqs EXCEPT ![r].pc = pc]
  /\ ret' = [op |-> op, val |-> val]

\* create_document, lines 54-70: the two quota checks and the file type
UploadBegin(r, org, content, type_ok, key) ==
  /\ reqs[r].pc = "idle"
  /\ LET q0 == get_or_create_quota(quota, org)
         c1 == check_document_quota(q0, org, 1)
         c2 == check_storage_quota(q0, org, FileSize(content))
         error == IF ~c1[1] THEN c1[2]
                  ELSE IF ~c2[1] THEN c2[2]
                  ELSE IF ~type_ok THEN "Unsupported file type" ELSE None
     IN /\ quota' = q0
        /\ IF error # None
           THEN /\ reqs' = [reqs EXCEPT ![r] =
                              [NoReq EXCEPT !.pc = "rejected", !.op = "upload",
                                            !.org = org]]
                /\ ret' = [op |-> "create", val |-> "ValueError"]
           ELSE /\ reqs' = [reqs EXCEPT ![r] =
                              [NoReq EXCEPT !.pc = "create", !.op = "upload",
                                            !.org = org, !.content = content,
                                            !.key = key]]
                /\ UNCHANGED ret
  /\ UNCHANGED <<docs, tasks, sessions>>

\* an upload that enqueues the task as soon as the row is committed
UploadCreate_dispatches_first(r) ==
  /\ reqs[r].pc = "create"
  /\ FreeDocs # {}
  /\ FreeTasks # {}
  /\ LET d == SetMin(FreeDocs)
     IN /\ docs' = [docs EXCEPT ![d] = NewDocument(reqs[r].org, reqs[r].content)]
        /\ tasks' = Dispatch(tasks, d, reqs[r].org, reqs[r].key)
        /\ reqs' = [reqs EXCEPT ![r].pc = "docs_read", ![r].doc = d]
  /\ UNCHANGED <<quota, ret, sessions>>

\* lines 73-92: save the file, insert the Document row, commit
UploadCreate(r) ==
  /\ reqs[r].pc = "create"
  /\ FreeDocs # {}
  /\ LET d == SetMin(FreeDocs)
     IN /\ docs' = [docs EXCEPT ![d] = NewDocument(reqs[r].org, reqs[r].content)]
        /\ reqs' = [reqs EXCEPT ![r].pc = "docs_read", ![r].doc = d]
  /\ UNCHANGED <<quota, tasks, ret, sessions>>

\* the quota object, expired by the last commit, is loaded again
ReadCounter(r, from, to, value) ==
  /\ reqs[r].pc = from
  /\ reqs' = [reqs EXCEPT ![r].pc = to, ![r].seen = value]
  /\ UNCHANGED <<quota, docs, tasks, ret, sessions>>

\* db.commit() of update_*_count: the UPDATE writes the one column that was
\* assigned, and the CHECK constraints decide on the row that results
WriteCounter(r, from, to, q1, op) ==
  /\ reqs[r].pc = from
  /\ IF CheckConstraints(q1[reqs[r].org])
     THEN /\ quota' = q1
          /\ reqs' = [reqs EXCEPT ![r].pc = to, ![r].applied = @ + 1]
          /\ UNCHANGED ret
     ELSE /\ Ends(r, "failed", op, "IntegrityError")
          /\ UNCHANGED quota
  /\ UNCHANGED <<docs, tasks, sessions>>

\* line 95, update_document_count(organization_id, 1)
UploadReadDocuments(r) ==
  ReadCounter(r, "docs_read", "docs_write",
              quota[reqs[r].org].current_documents)

UploadWriteDocuments(r) ==
  WriteCounter(r, "docs_write", "storage_read",
               [quota EXCEPT ![reqs[r].org].current_documents =
                               Clamp(reqs[r].seen, 1)], "create")

\* line 96, update_storage_count(organization_id, len(file_content)): the
\* value comes from the refresh that ended update_document_count
UploadReadStorage(r) ==
  ReadCounter(r, "storage_read", "storage_write",
              quota[reqs[r].org].current_storage_bytes)

UploadWriteStorage(r) ==
  WriteCounter(r, "storage_write", "dispatch",
               [quota EXCEPT ![reqs[r].org].current_storage_bytes =
                               Clamp(reqs[r].seen, FileSize(reqs[r].content))],
               "create")

\* lines 98-120: audit log, key lookup, process_document_task.delay, return
UploadDispatch(r) ==
  /\ reqs[r].pc = "dispatch"
  /\ FreeTasks # {}
  /\ tasks' = Dispatch(tasks, reqs[r].doc, reqs[r].org, reqs[r].key)
  /\ Ends(r, "done", "create", "document")
  /\ UNCHANGED <<quota, docs, sessions>>

\* create_session, lines 46-49: the quota check
SessionBegin(r, org) ==
  /\ reqs[r].pc = "idle"
  /\ LET q0 == get_or_create_quota(quota, org)
         c == check_chat_session_quota(q0, org, 1)
     IN /\ quota' = q0
        /\ IF ~c[1]
           THEN /\ reqs' = [reqs EXCEPT ![r] =
                              [NoReq EXCEPT !.pc = "rejected", !.op = "session",
                                            !.org = org]]
                /\ ret' = [op |-> "create_session", val |-> "ValueError"]
           ELSE /\ reqs' = [reqs EXCEPT ![r] =
                              [NoReq EXCEPT !.pc = "session", !.op = "session",
                                            !.org = org]]
                /\ UNCHANGED ret
  /\ UNCHANGED <<docs, tasks, sessions>>

\* lines 51-63: insert the ChatSession row, commit
SessionCreate(r) ==
  /\ reqs[r].pc = "session"
  /\ sessions[reqs[r].org] < MaxCounter
  /\ sessions' = [sessions EXCEPT ![reqs[r].org] = @ + 1]
  /\ reqs' = [reqs EXCEPT ![r].pc = "sessions_read"]
  /\ UNCHANGED <<quota, docs, tasks, ret>>

\* line 66, update_chat_session_count(organization_id, 1)
SessionReadCount(r) ==
  ReadCounter(r, "sessions_read", "sessions_write",
              quota[reqs[r].org].current_chat_sessions)

SessionWriteCount(r) ==
  WriteCounter(r, "sessions_write", "return",
               [quota EXCEPT ![reqs[r].org].current_chat_sessions =
                               Clamp(reqs[r].seen, 1)], "create_session")

\* lines 68-78: audit log, return the session
SessionReturn(r) ==
  /\ reqs[r].pc = "return"
  /\ Ends(r, "done", "create_session", "session")
  /\ UNCHANGED <<quota, docs, tasks, sessions>>

admitframe == <<rows, settings_key, ckvars, found, em, chat>>

UploadRequest ==
  /\ \E r \in ReqIds :
       \/ \E org \in Orgs, content \in UploadContents, type_ok \in BOOLEAN :
            UploadBegin(r, org, content, type_ok, TRUE)
       \/ UploadCreate(r)
       \/ UploadReadDocuments(r)
       \/ UploadWriteDocuments(r)
       \/ UploadReadStorage(r)
       \/ UploadWriteStorage(r)
       \/ UploadDispatch(r)
  /\ UNCHANGED admitframe

SessionRequest ==
  /\ \E r \in ReqIds :
       \/ \E org \in Orgs : SessionBegin(r, org)
       \/ SessionCreate(r)
       \/ SessionReadCount(r)
       \/ SessionWriteCount(r)
       \/ SessionReturn(r)
  /\ UNCHANGED admitframe

NextAdmit == UploadRequest \/ SessionRequest

SpecAdmit == InitSerial /\ [][NextAdmit]_vars

\* ------------------------------------------------------ first quota access
\* get_or_create_quota, step by step: units of work, each with its own
\* session, look a tenant's row up and insert it when they found none.
\* organization_id is declared unique=True
UniqueOrganization_dropped(q, org) == TRUE

UniqueOrganization(q, org) == q[org].records = 0

\* rows a tenant can have before the access: the defaults and some usage
UsedQuotas ==
  {[DefaultQuota EXCEPT !.current_documents = n, !.current_chat_sessions = k]
     : n \in 0..MaxUsage, k \in 0..MaxUsage}

InitFirst ==
  /\ docs = [d \in 1..MaxDocs |-> NoDoc]
  /\ rows = {}
  /\ quota \in [Orgs -> {NoQuota} \cup UsedQuotas]
  /\ tasks = [t \in TaskIds |-> NoTask]
  /\ settings_key = FALSE
  /\ ret = NoRet
  /\ RestIdle
  /\ ChunkIdle

\* lines 34-36: the query; a row that is found is returned
QuotaQuery(r, org) ==
  /\ reqs[r].pc = "idle"
  /\ IF quota[org].exists
     THEN /\ reqs' = [reqs EXCEPT ![r] =
                        [NoReq EXCEPT !.pc = "done", !.op = "quota", !.org = org,
                                      !.seen = 1]]
          /\ ret' = [op |-> "get_or_create_quota", val |-> "quota"]
     ELSE /\ reqs' = [reqs EXCEPT ![r] =
                        [NoReq EXCEPT !.pc = "absent", !.op = "quota",
                                      !.org = org]]
          /\ UNCHANGED ret
  /\ UNCHANGED quota

\* lines 38-42: OrganizationQuota(organization_id=...) is added and
\* committed; the INSERT fails when the tenant has a row by now
QuotaInsert(r) ==
  /\ reqs[r].pc = "absent"
  /\ LET org == reqs[r].org
     IN IF UniqueOrganization(quota, org)
        THEN /\ quota' = [quota EXCEPT ![org] =
                            IF @.exists THEN [@ EXCEPT !.records = @ + 1]
                            ELSE DefaultQuota]
             /\ Ends(r, "done", "get_or_create_quota", "quota")
        ELSE /\ Ends(r, "failed", "get_or_create_quota", "IntegrityError")
             /\ UNCHANGED quota

firstframe == <<docs, rows, tasks, settings_key, ckvars, sessions, found, em, chat>>

FirstAccess ==
  /\ \E r \in ReqIds :
       \/ \E org \in Orgs : QuotaQuery(r, org)
       \/ QuotaInsert(r)
  /\ UNCHANGED firstframe

NextFirst == FirstAccess

SpecFirst == InitFirst /\ [][NextFirst]_vars

\* ------------------------------------------------------------ retrieval
\* Embeddings are abstracted to 1..MaxEmbedding; 0 is a NULL embedding column.
\* Scores are percentages: 70 is the similarity 0.7.
NullEmbedding == 0
Embeddings == 1..MaxEmbedding
Statuses == {"UPLOADED", "PROCESSING", "READY", "FAILED"}

\* 1 - (dc.embedding <=> query_embedding): 100 for equal vectors, smaller the
\* further apart they are
Similarity(q, e) ==
  LET dist == IF q > e THEN q - e ELSE e - q
  IN IF dist = 0 THEN 100 ELSE IF dist = 1 THEN 82 ELSE 65

\* the WHERE clause without d.status = :status
InScope_any_status(org) ==
  {r \in rows : /\ docs[r.document_id].exists
                /\ docs[r.document_id].org = org
                /\ ~docs[r.document_id].deleted_at
                /\ r.embedding # NullEmbedding}

\* the rows the WHERE clause of the search keeps
InScope(org) ==
  {r \in rows : /\ docs[r.document_id].exists
                /\ docs[r.document_id].org = org
                /\ docs[r.document_id].status = "READY"
                /\ ~docs[r.document_id].deleted_at
                /\ r.embedding # NullEmbedding}

\* the orders ORDER BY distance can return S in (ties in any order)
Rankings(S, q) ==
  {s \in [1..Cardinality(S) -> S] :
     /\ \A i, j \in 1..Cardinality(S) : i # j => s[i] # s[j]
     /\ \A i, j \in 1..Cardinality(S) :
          i < j => Similarity(q, s[i].embedding) >= Similarity(q, s[j].embedding)}

\* the query without LIMIT
Limit_unbounded(s, n) == s

\* LIMIT :limit
Limit(s, n) == SubSeq(s, 1, Min2(n, Len(s)))

\* the loop over the result rows: keep those with similarity >= min_score
KeepScored(s, q, min_score) ==
  LET Scored(r) == [chunk |-> r, score |-> Similarity(q, r.embedding)]
      all == [i \in 1..Len(s) |-> Scored(s[i])]
      Test(x) == x.score >= min_score
  IN SelectSeq(all, Test)

\* search_relevant_chunks looking up the credential before probing
search_relevant_chunks_key_first(org, limit, min_score, probe, cred, q, ranked) ==
  IF ~cred
  THEN [raised |-> TRUE, result |-> <<>>, embedded |-> FALSE]
  ELSE IF probe # "enabled"
  THEN [raised |-> FALSE, result |-> <<>>, embedded |-> FALSE]
  ELSE IF q = 0
  THEN [raised |-> TRUE, result |-> <<>>, embedded |-> TRUE]
  ELSE [raised |-> FALSE,
        result |-> KeepScored(Limit(ranked, limit), q, min_score),
        embedded |-> TRUE]

\* RAGService.search_relevant_chunks.  probe: what the pg_extension query
\* gives; cred: the tenant has an active key; q: the query embedding the
\* provider returns, 0 when the provider call fails; ranked: the order the
\* database returns the rows in.
search_relevant_chunks(org, limit, min_score, probe, cred, q, ranked) ==
  IF probe # "enabled"
  THEN [raised |-> FALSE, result |-> <<>>, embedded |-> FALSE]
  ELSE IF ~cred
  THEN [raised |-> TRUE, result |-> <<>>, embedded |-> FALSE]
  ELSE IF q = 0
  THEN [raised |-> TRUE, result |-> <<>>, embedded |-> TRUE]
  ELSE [raised |-> FALSE,
        result |-> KeepScored(Limit(ranked, limit), q, min_score),
        embedded |-> TRUE]

\* the sources list built from the chunks whose document is found
Sources(result) ==
  LET Test(x) == docs[x.chunk.document_id].exists
      kept == SelectSeq(result, Test)
  IN [i \in 1..Len(kept) |->
        [document_id |-> kept[i].chunk.document_id,
         chunk_index |-> kept[i].chunk.chunk_index,
         relevance_score |-> kept[i].score]]

\* generate_rag_response building the LLM service before looking at the
\* retrieval result
generate_rag_response_llm_first(org, probe, cred, q, ranked, llm_ok) ==
  LET s == search_relevant_chunks(org, default_max_chunks, default_min_score,
                                  probe, cred, q, ranked)
  IN IF s.raised \/ ~cred
     THEN [op |-> "generate", raised |-> TRUE, result |-> s.result,
           embedded |-> s.embedded, response |-> "none", sources |-> <<>>,
           llm_called |-> FALSE]
     ELSE IF s.result = <<>>
     THEN [op |-> "generate", raised |-> FALSE, result |-> s.result,
           embedded |-> s.embedded, response |-> "no relevant information",
           sources |-> <<>>, llm_called |-> FALSE]
     ELSE [op |-> "generate", raised |-> ~llm_ok, result |-> s.result,
           embedded |-> s.embedded,
           response |-> IF llm_ok THEN "answer" ELSE "none",
           sources |-> IF llm_ok THEN Sources(s.result) ELSE <<>>,
           llm_called |-> TRUE]

\* RAGService.generate_rag_response.  llm_ok: the generative model answers.
generate_rag_response(org, probe, cred, q, ranked, llm_ok) ==
  LET s == search_relevant_chunks(org, default_max_chunks, default_min_score,
                                  probe, cred, q, ranked)
  IN IF s.raised
     THEN [op |-> "generate", raised |-> TRUE, result |-> s.result,
           embedded |-> s.embedded, response |-> "none", sources |-> <<>>,
           llm_called |-> FALSE]
     ELSE IF s.result = <<>>
     THEN [op |-> "generate", raised |-> FALSE, result |-> s.result,
           embedded |-> s.embedded, response |-> "no relevant information",
           sources |-> <<>>, llm_called |-> FALSE]
     ELSE IF ~cred
     THEN [op |-> "generate", raised |-> TRUE, result |-> s.result,
           embedded |-> s.embedded, response |-> "none", sources |-> <<>>,
           llm_called |-> FALSE]
     ELSE [op |-> "generate", raised |-> ~llm_ok, result |-> s.result,
           embedded |-> s.embedded,
           response |-> IF llm_ok THEN "answer" ELSE "none",
           sources |-> IF llm_ok THEN Sources(s.result) ELSE <<>>,
           llm_called |-> TRUE]

\* a document row of the drawn store
StoreDocs ==
  {[exists |-> TRUE, org |-> o, status |-> st, error_message |-> None,
    chunk_count |-> 0, processed_at |-> st = "READY", deleted_at |-> del,
    content |-> "short", file |-> ~del] :
     o \in Orgs, st \in Statuses, del \in BOOLEAN}

\* (document, chunk_index) pairs a drawn store may hold a chunk row for
ChunkSlots == {<<d, 0>> : d \in 1..MaxStoreDocs} \cup {<<1, 1>>}

StoreRow(slot, e) ==
  [document_id |-> slot[1], chunk_index |-> slot[2],
   text_content |-> <<"a">>, embedding |-> e,
   char_start |-> 0, char_end |-> 1]

\* a store of documents in any status, of any tenant, deleted or not, with
\* chunk rows with and without embedding
InitSearch ==
  /\ docs \in [1..MaxStoreDocs -> StoreDocs]
  /\ \E e \in [ChunkSlots -> {-1, NullEmbedding} \cup 1..(MaxEmbedding - 1)] :
       rows = {StoreRow(slot, e[slot]) : slot \in {x \in ChunkSlots : e[x] # -1}}
  /\ quota = [o \in Orgs |-> NoQuota]
  /\ tasks = [t \in TaskIds |-> NoTask]
  /\ settings_key = FALSE
  /\ ret = NoRet
  /\ RestIdle
  /\ ChunkIdle

Probes == {"enabled", "missing", "error"}
searchframe == <<docs, rows, quota, tasks, settings_key, ret, reqs, sessions, ckvars,
                 em, chat>>

Search ==
  /\ found.op = "none"
  /\ \E org \in Orgs, limit \in {1, default_limit},
        min_score \in {default_min_score, 90},
        probe \in Probes, cred \in BOOLEAN, q \in {0} \cup Embeddings :
       \E ranked \in Rankings(InScope(org), q) :
         LET s == search_relevant_chunks(org, limit, min_score, probe, cred,
                                         q, ranked)
         IN found' = [op |-> "search", raised |-> s.raised,
                      result |-> s.result, embedded |-> s.embedded,
                      response |-> "none", sources |-> <<>>,
                      llm_called |-> FALSE,
                      org |-> org, limit |-> limit, min_score |-> min_score,
                      probe |-> probe, cred |-> cred, q |-> q]
  /\ UNCHANGED searchframe

Generate ==
  /\ found.op = "none"
  /\ \E org \in Orgs, probe \in Probes, cred \in BOOLEAN,
        q \in {0} \cup Embeddings, llm_ok \in BOOLEAN :
       \E ranked \in Rankings(InScope(org), q) :
         LET g == generate_rag_response(org, probe, cred, q, ranked, llm_ok)
         IN found' = [g EXCEPT !.op = "generate"] @@
                     [org |-> org, limit |-> default_max_chunks,
                      min_score |-> default_min_score,
                      probe |-> probe, cred |-> cred, q |-> q]
  /\ UNCHANGED searchframe

NextSearch == Search \/ Generate

SpecSearch == InitSearch /\ [][NextSearch]_vars

\* ------------------------------------------------------ embedding calls
\* generate_embeddings_batch on its own: a list of texts, a batch size, and
\* one step per provider call.
EmbedTexts == UNION {[1..m -> TextsUpTo(1) \ {<<>>}] : m \in 0..MaxTexts}

\* everything but em and chat as SysIdle has it
StoreIdle ==
  /\ docs = [d \in 1..MaxDocs |-> NoDoc]
  /\ rows = {}
  /\ quota = [o \in Orgs |-> NoQuota]
  /\ tasks = [t \in TaskIds |-> NoTask]
  /\ settings_key = FALSE
  /\ ret = NoRet
  /\ reqs = [r \in ReqIds |-> NoReq]
  /\ sessions = [o \in Orgs |-> 0]
  /\ found = NoFound
  /\ ChunkIdle

InitEmbed ==
  /\ \E texts \in EmbedTexts, batch_size \in 1..MaxBatch :
       em = [NoEmbed EXCEPT !.pc = "loop", !.texts = texts,
                            !.batch_size = batch_size]
  /\ chat = NoChat
  /\ StoreIdle

embedframe == <<docs, rows, quota, tasks, settings_key, ret, reqs, sessions,
                found, ckvars, chat>>

\* lines 71-79: one iteration of for i in range(0, len(texts), batch_size);
\* an exception of the provider call leaves the function as ValueError
EmbedCall ==
  /\ em.pc = "loop"
  /\ em.i < Len(em.texts)
  /\ LET batch == SubSeq(em.texts, em.i + 1,
                         Min2(em.i + em.batch_size, Len(em.texts)))
     IN \E outcome \in ProviderOutcomes :
          IF outcome = "error"
          THEN em' = [em EXCEPT !.pc = "raised", !.calls = Append(@, batch)]
          ELSE em' = [em EXCEPT !.i = @ + em.batch_size,
                                !.calls = Append(@, batch),
                                !.all_embeddings = @ \o ProviderData(batch, outcome)]
  /\ UNCHANGED embedframe

\* line 81: return all_embeddings
EmbedReturn ==
  /\ em.pc = "loop"
  /\ em.i >= Len(em.texts)
  /\ em' = [em EXCEPT !.pc = "returned", !.result = em.all_embeddings]
  /\ UNCHANGED embedframe

NextEmbed == EmbedCall \/ EmbedReturn

SpecEmbed == InitEmbed /\ [][NextEmbed]_vars

\* ------------------------------------------------------------ chat messages
\* The messages of a session are numbered 1..n in the order of created_at;
\* a message of the prompt is the system prompt, a stored message (by its
\* number), the context message or the raw query (by the number of the user
\* message that carries it).
SystemMessage == [kind |-> "system", id |-> 0]
ContextMessage == [kind |-> "context", id |-> 0]
StoredMessage(k) == [kind |-> "message", id |-> k]
QueryMessage(k) == [kind |-> "query", id |-> k]

\* xs[-k:]
LastItems(xs, k) == SubSeq(xs, IF Len(xs) > k THEN Len(xs) - k + 1 ELSE 1, Len(xs))

\* the session's messages ordered by created_at ascending, cut by LIMIT
get_messages(n, limit) == [k \in 1..Min2(n, limit) |-> k]

\* the messages handed to the model when retrieval found chunks
messages(user_query, conversation_history) ==
  <<SystemMessage>>
    \o (IF conversation_history # <<>>
        THEN [j \in 1..Len(LastItems(conversation_history, recent_history)) |->
                StoredMessage(LastItems(conversation_history, recent_history)[j])]
        ELSE <<>>)
    \o <<ContextMessage, QueryMessage(user_query)>>

ChatAnswers == {"ok", "error"}

InitChat ==
  /\ chat = NoChat
  /\ em = NoEmbed
  /\ StoreIdle

chatframe == <<docs, rows, quota, tasks, settings_key, ret, reqs, sessions,
               found, ckvars, em>>

\* POST /sessions/{id}/messages: the user message is flushed, the history is
\* read back with it, the response is generated and both messages are
\* committed; a ValueError of the response leaves nothing stored
send_message(s, retrieved, answer) ==
  LET n == chat.messages[s] + 1
      previous_messages == get_messages(n, history_limit)
      conversation_history == LastItems(previous_messages, recent_history)
      prompt == IF retrieved
                THEN messages(n, conversation_history)
                ELSE <<>>
      raised == retrieved /\ answer = "error"
  IN /\ chat.messages[s] + 2 <= MaxMessages
     /\ chat' = [messages |-> IF raised THEN chat.messages
                              ELSE [chat.messages EXCEPT ![s] = n + 1],
                 op |-> IF raised THEN "raised"
                        ELSE IF retrieved THEN "answered" ELSE "no_context",
                 session |-> s,
                 query |-> n,
                 history |-> conversation_history,
                 prompt |-> prompt]
     /\ UNCHANGED chatframe

SendMessage ==
  \E s \in ChatIds, retrieved \in BOOLEAN, answer \in ChatAnswers :
    send_message(s, retrieved, answer)

NextChat == SendMessage

SpecChat == InitChat /\ [][NextChat]_vars

\* ------------------------------------------------------------------ claims

\* C1: chunk_text terminates for every text and configuration: on every loop
\* iteration that does not leave the loop the window start strictly increases.
C1_StartStrictlyIncreases ==
  [][(ck_pc = "loop" /\ ck_pc' = "loop") => ck_st'.start > ck_st.start]_vars

\* ---- helpers of the claims about process_document_task
\* task t returns a failure descriptor in this step, from one of steps 1-4
FailsInSteps(t) ==
  /\ tasks[t].pc \in {"extract", "chunk", "embed", "persist"}
  /\ tasks'[t].pc = "none"

\* task t commits its chunk rows and the document in this step
CommitsChunks(t) == tasks[t].pc = "persist" /\ tasks'[t].pc = "quota"

QuotaCounters(q) == <<q.current_documents, q.current_storage_bytes,
                      q.current_chunks, q.current_chat_sessions>>

\* C2: a task that fails in steps 1-4 returns a failure result and leaves the
\* document FAILED with the message stored, no chunk row, chunk_count 0 and
\* every quota counter as it was.
C2_FailureLeavesCleanFailed ==
  [][\A t \in TaskIds : FailsInSteps(t) =>
        LET d == tasks[t].doc
        IN /\ ret' = [op |-> "task", val |-> "failure"]
           /\ docs'[d].status = "FAILED"
           /\ docs'[d].error_message \in Errors
           /\ {r \in rows' : r.document_id = d} = {}
           /\ docs'[d].chunk_count = 0
           /\ quota' = quota]_vars

\* C3: a document's status changes only along the transition table
\* UPLOADED -> PROCESSING, PROCESSING -> READY or FAILED, READY or FAILED ->
\* UPLOADED.
C3_TransitionTable ==
  [][\A d \in DocIds :
       (docs[d].exists /\ docs'[d].status # docs[d].status)
         => <<docs[d].status, docs'[d].status>> \in
              {<<"UPLOADED", "PROCESSING">>, <<"PROCESSING", "READY">>,
               <<"PROCESSING", "FAILED">>, <<"READY", "UPLOADED">>,
               <<"FAILED", "UPLOADED">>}]_vars

\* C4: a task that finds no credential (none passed, none configured) returns
\* a failure result and leaves the document FAILED with an error message.
C4_NoCredentialFails ==
  [][\A t \in TaskIds :
       (/\ tasks[t].pc = "init"
        /\ ~(tasks[t].api_key \/ settings_key)
        /\ tasks'[t] # tasks[t])
         => /\ ret' = [op |-> "task", val |-> "failure"]
            /\ docs'[tasks[t].doc].status = "FAILED"
            /\ docs'[tasks[t].doc].error_message # None]_vars

\* C5: every dispatched task eventually returns a result descriptor.
C5_TaskEventuallyReturns ==
  \A t \in TaskIds :
     (tasks[t].pc = "queued")
       ~> (tasks[t].pc = "none" /\ ret.op = "task"
           /\ ret.val \in {"success", "failure", "not found"})

\* C6: the rows a task commits are one per chunk of the chunker, each with an
\* embedding, and the document is READY; a short embedding result commits
\* nothing.
C6_AllOrNothing ==
  [][\A t \in TaskIds : CommitsChunks(t) =>
        LET d == tasks[t].doc
            mine == {r \in rows' : r.document_id = d}
        IN /\ Cardinality(mine) = Len(tasks[t].chunks)
           /\ \A r \in mine : r.embedding = Vec(r.text_content)
           /\ docs'[d].status = "READY"]_vars

\* C7: a task whose steps 1-4 succeed with n >= 1 chunk rows leaves the
\* document READY with chunk_count = n = number of its rows, processed_at set
\* and error_message cleared, and then adds exactly n to current_chunks and
\* nothing to the other counters.
C7_SuccessPostcondition ==
  [][\A t \in TaskIds :
       LET d == tasks[t].doc
           n == Min2(Len(tasks[t].chunks), Len(tasks[t].embeddings))
       IN /\ (CommitsChunks(t) /\ n >= 1) =>
                /\ docs'[d].status = "READY"
                /\ docs'[d].chunk_count = n
                /\ Cardinality({r \in rows' : r.document_id = d}) = n
                /\ docs'[d].processed_at
                /\ docs'[d].error_message = None
          /\ (tasks[t].pc = "quota" /\ tasks'[t].pc = "none") =>
                /\ ret' = [op |-> "task", val |-> "success"]
                /\ quota'[tasks[t].org].current_chunks =
                      quota[tasks[t].org].current_chunks + n
                /\ \A o \in Orgs :
                     /\ quota'[o].current_documents = quota[o].current_documents
                     /\ quota'[o].current_storage_bytes = quota[o].current_storage_bytes
                     /\ quota'[o].current_chat_sessions = quota[o].current_chat_sessions
                     /\ (o # tasks[t].org => quota'[o] = quota[o])]_vars

Queued(tk, d) == {t \in TaskIds : tk[t].pc = "queued" /\ tk[t].doc = d}

\* C8: reprocess_document on a visible document leaves it UPLOADED with
\* chunk_count 0, no error and no chunk row and enqueues exactly one task;
\* otherwise it returns None and changes nothing.
C8_Reprocess ==
  [][\A d \in DocIds, org \in Orgs, key \in BOOLEAN :
       reprocess_document(d, org, key) =>
         IF Visible(d, org)
         THEN /\ ret'.val = "document"
              /\ docs'[d].status = "UPLOADED"
              /\ docs'[d].chunk_count = 0
              /\ docs'[d].error_message = None
              /\ {r \in rows' : r.document_id = d} = {}
              /\ Cardinality(Queued(tasks', d)) = Cardinality(Queued(tasks, d)) + 1
              /\ \A t \in TaskIds : tasks[t].pc # "none" => tasks'[t] = tasks[t]
         ELSE /\ ret'.val = None
              /\ UNCHANGED <<docs, rows, quota, tasks>>]_vars

\* a reprocess of a document that had chunk rows has been served
C8_Witness ==
  /\ ret = [op |-> "reprocess", val |-> "document"]
  /\ \E d \in DocIds : /\ docs[d].exists /\ docs[d].status = "UPLOADED"
                       /\ docs[d].processed_at
                       /\ quota[docs[d].org].current_chunks >= 1
                       /\ RowsOf(d) = {}

\* C9: each check_* call answers (False, reason) exactly when the usage plus
\* the requested amount exceeds the limit and (True, None) otherwise, and
\* changes no usage counter.
C9_CheckDecides ==
  [][\A org \in Orgs : \A n \in {0, 1, 2, 500} :
       LET q == quota'[org]
           Answer(refused) == IF refused THEN "(False, reason)" ELSE "(True, None)"
       IN /\ CheckDocuments(org, n) =>
               ret'.val = Answer(q.current_documents + n > q.max_documents)
          /\ CheckStorage(org, n) =>
               ret'.val = Answer(q.current_storage_bytes + n > q.max_storage_bytes)
          /\ CheckSessions(org, n) =>
               ret'.val = Answer(q.current_chat_sessions + n > q.max_chat_sessions)
          /\ (CheckDocuments(org, n) \/ CheckStorage(org, n) \/ CheckSessions(org, n))
               => \A o \in Orgs : QuotaCounters(quota'[o]) = QuotaCounters(quota[o])]_vars

\* 500 more bytes have been refused to a tenant using 900 of 1000
C9_Witness ==
  /\ ret = [op |-> "check_storage_quota", val |-> "(False, reason)"]
  /\ \E o \in Orgs : /\ quota[o].current_storage_bytes = 900
                      /\ quota[o].max_storage_bytes = 1000

\* C10: each update_*_count call sets its counter to max(0, current + delta)
\* and leaves every other counter alone, and no counter is ever negative.
C10_ApplyClamps ==
  [][\A org \in Orgs : \A delta \in CountDeltas \cup ByteDeltas :
       LET c == QuotaCounters(quota[org])
           Applied(i) == [c EXCEPT ![i] = Max2(0, c[i] + delta)]
       IN /\ UpdateDocuments(org, delta) => QuotaCounters(quota'[org]) = Applied(1)
          /\ UpdateStorage(org, delta) => QuotaCounters(quota'[org]) = Applied(2)
          /\ UpdateChunks(org, delta) => QuotaCounters(quota'[org]) = Applied(3)
          /\ UpdateSessions(org, delta) => QuotaCounters(quota'[org]) = Applied(4)
          /\ \A i \in 1..4 : QuotaCounters(quota'[org])[i] >= 0]_vars

\* C18: the chunks emitted by chunk_text carry chunk_index 0, 1, ..., n-1 in
\* emission order, a window whose stripped text is empty consumes no index,
\* and no emitted chunk has empty text.
C18_DenseIndices ==
  /\ ck_st.chunk_index = Len(ck_st.chunks)
  /\ \A i \in 1..Len(ck_st.chunks) :
       /\ ck_st.chunks[i].chunk_index = i - 1
       /\ ck_st.chunks[i].text # <<>>

\* chunk_text has returned at least two chunks after dropping a blank window
C18_Witness ==
  /\ ck_pc = "done"
  /\ Len(ck_st.chunks) >= 2
  /\ ck_iters > Len(ck_st.chunks)

\* C19: chunk_text returns no chunk for the empty text, and exactly one
\* chunk, from 0 to len(text), for a text with non-whitespace content that is
\* shorter than the window of chunk_size * 4 characters.
C19_ShortInputs ==
  /\ (ck_text = <<>> /\ ck_pc = "done") => ck_st.chunks = <<>>
  /\ (Strip(ck_text) # <<>> /\ Len(ck_text) < ck_cfg.chunk_size * chars_per_token)
       => /\ Len(ck_st.chunks) <= 1
          /\ ck_pc = "done" =>
               /\ Len(ck_st.chunks) = 1
               /\ ck_st.chunks[1].char_start = 0
               /\ ck_st.chunks[1].char_end = Len(ck_text)

\* C20: consecutive chunks overlap by at most overlap * 4 characters, skip no
\* character between them, and start at strictly increasing positions.
C20_BoundedOverlap ==
  \A i \in 1..(Len(ck_st.chunks) - 1) :
    LET a == ck_st.chunks[i]
        b == ck_st.chunks[i + 1]
    IN /\ a.char_end - ck_cfg.overlap * chars_per_token <= b.char_start
       /\ b.char_start <= a.char_end
       /\ a.char_start < b.char_start

\* C14: every (chunk, score) search returns has score >= min_score, a stored
\* embedding, and belongs to a READY, non-deleted document of the querying
\* tenant, whatever else the store holds.
C14_ResultsInScope ==
  found.op = "search" =>
    \A i \in 1..Len(found.result) :
      LET x == found.result[i]
          d == x.chunk.document_id
      IN /\ x.score >= found.min_score
         /\ x.score = Similarity(found.q, x.chunk.embedding)
         /\ x.chunk \in rows
         /\ x.chunk.embedding # NullEmbedding
         /\ docs[d].exists /\ docs[d].org = found.org
         /\ docs[d].status = "READY" /\ ~docs[d].deleted_at

\* a search returned a chunk and left out one that scores as well but
\* belongs to a document that is not READY, is deleted or is another tenant's
C14_Witness ==
  /\ found.op = "search"
  /\ Len(found.result) >= 1
  /\ \E r \in rows :
       /\ r.embedding # NullEmbedding
       /\ Similarity(found.q, r.embedding) >= found.min_score
       /\ \/ docs[r.document_id].status # "READY"
          \/ docs[r.document_id].deleted_at
          \/ docs[r.document_id].org # found.org

\* C15: search returns at most limit results in non-increasing score order,
\* and they are exactly the chunks with score >= min_score among the limit
\* in-scope chunks nearest to the query.
C15_TopLimitThenThreshold ==
  (found.op = "search" /\ found.probe = "enabled" /\ ~found.raised) =>
    LET res == found.result
        Sc(r) == Similarity(found.q, r.embedding)
        scope == {r \in rows : /\ docs[r.document_id].org = found.org
                               /\ docs[r.document_id].status = "READY"
                               /\ ~docs[r.document_id].deleted_at
                               /\ r.embedding # NullEmbedding}
        returned == {res[i].chunk : i \in 1..Len(res)}
    IN /\ Len(res) <= found.limit
       /\ Cardinality(returned) = Len(res)
       /\ \A i \in 1..(Len(res) - 1) : res[i].score >= res[i + 1].score
       /\ \A c \in returned :
            /\ c \in scope
            /\ Sc(c) >= found.min_score
            /\ Cardinality({x \in scope : Sc(x) > Sc(c)}) < found.limit
       /\ \A c \in scope :
            (/\ Sc(c) >= found.min_score
             /\ Cardinality({x \in scope \ {c} : Sc(x) >= Sc(c)}) < found.limit)
              => c \in returned

\* in-scope similarities 0.82 and 0.65, min_score 0.7, limit 5: the single
\* 0.82 chunk is returned
C15_Witness ==
  /\ found.op = "search" /\ found.probe = "enabled" /\ ~found.raised
  /\ found.limit = 5 /\ found.min_score = 70
  /\ {Similarity(found.q, r.embedding) : r \in InScope(found.org)} = {82, 65}
  /\ Cardinality(InScope(found.org)) = 2
  /\ Len(found.result) = 1
  /\ found.result[1].score = 82

\* C16: when the pgvector probe reports the extension missing or fails,
\* search returns the empty list without raising and without calling the
\* embedding provider, with or without a credential.
C16_ProbeDegrades ==
  (found.op = "search" /\ found.probe # "enabled") =>
    /\ ~found.raised
    /\ found.result = <<>>
    /\ ~found.embedded

\* a search by a tenant without credential found the probe failing
C16_Witness ==
  /\ found.op = "search"
  /\ found.probe = "error"
  /\ ~found.cred
  /\ ~found.raised

\* C17: when retrieval returns no chunk, generate_rag_response returns the
\* fixed 'no relevant information' text with no sources, does not raise and
\* does not call the generative model.
C17_EmptyRetrievalCanned ==
  (/\ found.op = "generate"
   /\ \/ found.probe # "enabled"
      \/ /\ found.cred /\ found.q # 0
         /\ \A r \in InScope(found.org) :
              Similarity(found.q, r.embedding) < default_min_score)
    => /\ ~found.raised
       /\ found.response = "no relevant information"
       /\ found.sources = <<>>
       /\ ~found.llm_called

\* a tenant without credential got the fixed text: the extension is missing
C17_Witness ==
  /\ found.op = "generate"
  /\ found.probe = "missing"
  /\ ~found.cred
  /\ found.response = "no relevant information"

\* C11: when every upload, delete-document, create-session, delete-session
\* and recalculate runs to completion before the next operation starts, every
\* tenant's quota row has current_documents <= max_documents,
\* current_storage_bytes <= max_storage_bytes and
\* current_chat_sessions <= max_chat_sessions.
C11_UsageWithinLimits ==
  \A o \in Orgs :
    quota[o].exists =>
      /\ quota[o].current_documents <= quota[o].max_documents
      /\ quota[o].current_storage_bytes <= quota[o].max_storage_bytes
      /\ quota[o].current_chat_sessions <= quota[o].max_chat_sessions

\* a tenant at its document limit holds two READY documents (the second was
\* admitted after a recalculation that counted no READY document) and asked
\* for a recalculation
C11_Witness ==
  /\ ret.op = "recalculate"
  /\ quota[1].current_documents = quota[1].max_documents
  /\ Cardinality({d \in DocIds : /\ docs[d].exists /\ docs[d].org = 1
                                  /\ ~docs[d].deleted_at
                                  /\ docs[d].status = "READY"}) = 2

\* C12: two admissions of one tenant that run concurrently against a quota
\* with room for one both pass the check, both resources are created and
\* both increments are applied (so that current exceeds max): every
\* update_*_count call of an admitted request adds its delta to the counter.
C12_BothIncrementsApplied ==
  [][\A r \in ReqIds :
       LET o == reqs[r].org IN
       /\ (reqs[r].pc = "docs_write" /\ reqs'[r].pc # "docs_write")
            => quota'[o].current_documents = quota[o].current_documents + 1
       /\ (reqs[r].pc = "storage_write" /\ reqs'[r].pc # "storage_write")
            => quota'[o].current_storage_bytes =
                 quota[o].current_storage_bytes + FileSize(reqs[r].content)
       /\ (reqs[r].pc = "sessions_write" /\ reqs'[r].pc # "sessions_write")
            => quota'[o].current_chat_sessions =
                 quota[o].current_chat_sessions + 1]_vars

\* C13: an upload that create_document rejects raises before anything is
\* created: the documents (rows and files), the chunk rows, the usage
\* counters and the task queue are as before.  For an admitted upload the
\* counters are incremented only once its Document row is committed, and the
\* task is enqueued only after both increments were applied.
C13_RejectFirstApplyLast ==
  [][\A r \in ReqIds :
       /\ (reqs[r].pc = "idle" /\ reqs'[r].pc = "rejected"
           /\ reqs'[r].op = "upload")
            => /\ docs' = docs /\ rows' = rows /\ tasks' = tasks
               /\ \A o \in Orgs :
                    QuotaCounters(quota'[o]) = QuotaCounters(quota[o])
       /\ (reqs[r].op = "upload" /\ reqs'[r].applied # reqs[r].applied)
            => /\ reqs[r].doc \in DocIds
               /\ docs[reqs[r].doc].exists
               /\ docs[reqs[r].doc].file
       /\ (reqs[r].op = "upload" /\ reqs'[r].pc = "done" /\ reqs[r].pc # "done")
            => /\ reqs[r].applied = 2
               /\ \E t \in TaskIds : /\ tasks[t].pc = "none"
                                     /\ tasks'[t].pc = "queued"
                                     /\ tasks'[t].doc = reqs[r].doc
       /\ (tasks' # tasks)
            => \E s \in ReqIds : /\ reqs[s].applied = 2
                                 /\ reqs[s].pc # "done"
                                 /\ reqs'[s].pc = "done"]_vars

\* one upload was rejected and another was admitted, counted twice and its
\* task enqueued
C13_Witness ==
  \E r1, r2 \in ReqIds :
    /\ reqs[r1].op = "upload" /\ reqs[r1].pc = "rejected"
    /\ reqs[r2].op = "upload" /\ reqs[r2].pc = "done" /\ reqs[r2].applied = 2
    /\ \E t \in TaskIds : tasks[t].pc = "queued" /\ tasks[t].doc = reqs[r2].doc

\* C21: generate_embeddings_batch over n texts with batch size b issues
\* ceil(n/b) provider calls, the k-th carrying the k-th slice of at most b
\* consecutive texts, and returns exactly n vectors, the i-th being the
\* provider's vector for the i-th text; when a provider call fails the call
\* raises and returns no list.
C21_BatchesInOrder ==
  LET n == Len(em.texts)
      b == em.batch_size
  IN /\ em.pc = "returned"
          => /\ Len(em.calls) = NumBatches(n, b)
             /\ \A k \in 1..Len(em.calls) :
                  em.calls[k] = SubSeq(em.texts, (k - 1) * b + 1, Min2(k * b, n))
             /\ Len(em.result) = n
             /\ \A i \in 1..Len(em.result) : em.result[i] = Vec(em.texts[i])
     /\ em.pc = "raised" => em.result = <<>>

\* C22: recalculate_usage overwrites the tenant's counters with what the
\* tables hold: current_documents = its READY documents not deleted,
\* current_storage_bytes = the file sizes of its documents not deleted,
\* current_chunks = the chunk rows of its documents not deleted,
\* current_chat_sessions = its sessions not deleted; the limits and every
\* other tenant's row stay as they are.
C22_RecalculateOverwrites ==
  [][\A org \in Orgs :
       (recalculate_usage(org) /\ UNCHANGED <<docs, rows, tasks, sessions>>)
         => LET mine == {d \in DocIds : /\ docs[d].exists /\ docs[d].org = org
                                        /\ ~docs[d].deleted_at}
                q == quota'[org]
            IN /\ q.current_documents =
                    Cardinality({d \in mine : docs[d].status = "READY"})
               /\ q.current_storage_bytes = SumSizes(mine)
               /\ q.current_chunks =
                    Cardinality({r \in rows : r.document_id \in mine})
               /\ q.current_chat_sessions = sessions[org]
               /\ quota[org].exists
                    => /\ q.max_documents = quota[org].max_documents
                       /\ q.max_storage_bytes = quota[org].max_storage_bytes
                       /\ q.max_chat_sessions = quota[org].max_chat_sessions
               /\ \A o \in Orgs \ {org} : quota'[o] = quota[o]]_vars

\* C23: the first quota access for a tenant creates its row with the default
\* limits and zero usage, and a tenant never has more than one row, also
\* when two units of work both found none before either inserted.
C23_OneRecordPerTenant ==
  [][\A o \in Orgs :
       /\ (~quota[o].exists /\ quota'[o].exists)
            => /\ quota'[o].max_documents = default_max_documents
               /\ quota'[o].max_storage_bytes = default_max_storage_bytes
               /\ quota'[o].max_chat_sessions = default_max_chat_sessions
               /\ QuotaCounters(quota'[o]) = <<0, 0, 0, 0>>
       /\ quota'[o].records <= 1
       /\ \A r \in ReqIds :
            (reqs[r].pc = "idle" /\ reqs'[r].pc = "done" /\ reqs'[r].org = o)
              => quota[o].exists]_vars

\* two units of work found no row for the same tenant; one inserted it and
\* the other's insert was refused
C23_Witness ==
  \E r1, r2 \in ReqIds :
    /\ reqs[r1].op = "quota" /\ reqs[r2].op = "quota"
    /\ reqs[r1].org = reqs[r2].org
    /\ reqs[r1].pc = "done" /\ reqs[r1].seen = 0
    /\ reqs[r2].pc = "failed"
    /\ quota[reqs[r1].org].records = 1

\* C24: with a stored file, an extraction and a provider that answer the
\* same way every time, every successful run of the task, the first and
\* each one after a reprocess, ends with the same chunk_count and the same
\* number of chunk rows: the chunks of the file.  The chunk rows of earlier
\* runs do not accumulate: a document waiting to be processed has none.
C24_ReprocessSameCount ==
  [][/\ \A t \in TaskIds :
          (CommitsChunks(t) /\ Len(tasks[t].embeddings) = Len(tasks[t].chunks))
            => LET d == tasks[t].doc
                   n == Len(DefaultChunking[docs[d].content].chunks)
               IN /\ docs'[d].chunk_count = n
                  /\ Cardinality({r \in rows' : r.document_id = d}) = n
     /\ \A d \in DocIds :
          docs'[d].status = "UPLOADED" => {r \in rows' : r.document_id = d} = {}]_vars

\* a document was processed, reprocessed and processed again: the chunk
\* counter has counted its one chunk twice
C24_Witness ==
  /\ ret = [op |-> "task", val |-> "success"]
  /\ \E d \in DocIds :
       /\ docs[d].exists /\ docs[d].status = "READY"
       /\ docs[d].chunk_count = 1
       /\ Cardinality(RowsOf(d)) = 1
       /\ quota[docs[d].org].current_chunks = 2

\* C25: the task commits PROCESSING before anything else, so when the worker
\* crashes after that commit and before the commit of the chunk rows, the
\* document is PROCESSING, has no chunk row and no quota counter has moved
\* since the task started; a PROCESSING document that no task is working on
\* stays PROCESSING until a reprocess request (nothing recovers or retries).
C25_CrashLeavesProcessing ==
  [][/\ \A t \in TaskIds :
          (Crash(t) /\ tasks[t].pc # "quota")
            => LET d == tasks[t].doc
               IN /\ docs'[d].status = "PROCESSING"
                  /\ {r \in rows' : r.document_id = d} = {}
                  /\ docs'[d].chunk_count = 0
     /\ \A t \in TaskIds :
          (/\ Running(t) /\ tasks[t].pc \notin {"persist", "quota"}
           /\ tasks'[t].pc \notin {tasks[t].pc, "none"})
            => UNCHANGED <<docs, rows, quota>>
     /\ \A d \in DocIds :
          (/\ docs[d].status = "PROCESSING"
           /\ docs'[d].status # "PROCESSING"
           /\ \A t \in TaskIds : tasks[t].doc = d => ~Running(t))
            => /\ docs'[d].status = "UPLOADED"
               /\ ret' = [op |-> "reprocess", val |-> "document"]]_vars

\* C26: after any sequence of upload, task execution, reprocess and delete
\* operations that do not overlap, a tenant's current_chunks equals the
\* number of chunk rows of its documents that are not deleted.
C26_ChunkCounterMatchesRows ==
  Quiet =>
    \A o \in Orgs :
      quota[o].current_chunks =
        Cardinality({r \in rows : /\ docs[r.document_id].org = o
                                  /\ ~docs[r.document_id].deleted_at})

\* C27: whenever send_message has built a prompt, its history is the most
\* recent min(10, n) messages of the session in chronological order, n counting
\* the user message just stored, and the raw user query is the last message.
C27_HistoryIsMostRecent ==
  chat.prompt # <<>> =>
    LET n == chat.query
        k == Min2(recent_history, n)
    IN /\ chat.prompt[Len(chat.prompt)] = QueryMessage(n)
       /\ Len(chat.prompt) = k + 3
       /\ \A j \in 1..k : chat.prompt[1 + j] = StoredMessage(n - k + j)

\* C28: in every reachable state, overlapping tasks of one document included,
\* a READY document has chunk_count equal to the number of its chunk rows,
\* whose indices are exactly 0..chunk_count-1 without duplicates, and a
\* document in UPLOADED or FAILED has no chunk rows.
C28_RowsMatchStatus ==
  \A d \in DocIds :
    docs[d].exists =>
      /\ docs[d].status = "READY" =>
            /\ docs[d].chunk_count = Cardinality(RowsOf(d))
            /\ {r.chunk_index : r \in RowsOf(d)} = 0..(docs[d].chunk_count - 1)
      /\ docs[d].status \in {"UPLOADED", "FAILED"} => RowsOf(d) = {}

\* C29: a step of a task whose document is already soft-deleted leaves the
\* tenant's quota record, and so its document, storage and chunk counters, as
\* they are.
C29_DeletedDocumentNotCounted ==
  [][\A t \in TaskIds :
       (/\ tasks[t].pc # "none"
        /\ docs[tasks[t].doc].deleted_at
        /\ WorkerStep(t)) => quota' = quota]_vars

\* C30: after a sequence of upload, task execution, delete-document,
\* create-session and delete-session operations that do not overlap, a call of
\* recalculate_usage leaves every stored counter of every tenant unchanged.
C30_RecalculateChangesNothing ==
  [][(Counting /\ OrderedRecalculate) =>
       \A o \in Orgs : QuotaCounters(quota'[o]) = QuotaCounters(quota[o])]_vars

====
